---- MODULE Spec2Model ----
(***************************************************************************)
(* Image-Synthesis: a React component (App) that keeps an intake list of   *)
(* image files with object-URL previews and submits them, with a prompt,   *)
(* through synthesizeImage (services/geminiService.ts) to a remote model.  *)
(*                                                                         *)
(* Strings are sequences of tokens, so that the template literal, split    *)
(* and trim of the source are computed and not assumed.  A nullable value  *)
(* is a sequence of length at most one: <<>> is null/undefined, <<v>> is   *)
(* the value v.                                                            *)
(*                                                                         *)
(* Spec      the component, every event handled against a fresh render     *)
(* LiveSpec  Spec with the reads and the remote call completing in the end *)
(* SpecBatch the intake list with several events handled against one render*)
(* SpecSynth synthesizeImage called directly, on any prompt and image list *)
(***************************************************************************)
EXTENDS Integers, Sequences, FiniteSets, TLC

\* ------------------------------------------------------------------ bounds
\* Longest list of parts in a candidate of a remote response.
MaxParts == 3
\* Longest list of encoded images handed to synthesizeImage directly.
MaxImages == 1
\* Object URLs minted over a run (files selected in all).
MaxUrls == 2
\* handleSubmit invocations suspended at once.
MaxInFlight == 2
\* URL.revokeObjectURL calls counted per object URL.
MaxRevokes == 2

\* ------------------------------------------------------------ basic values
None == <<>>
Some(v) == <<v>>

\* JavaScript truthiness of a string: the empty string is falsy.
Truthy(s) == s # <<>>

\* The whitespace token.
Space == " "

RECURSIVE TrimStart(_)
TrimStart(s) == IF s # <<>> /\ Head(s) = Space THEN TrimStart(Tail(s)) ELSE s

RECURSIVE TrimEnd(_)
TrimEnd(s) ==
  IF s # <<>> /\ s[Len(s)] = Space THEN TrimEnd(SubSeq(s, 1, Len(s) - 1)) ELSE s

\* String.prototype.trim
Trim(s) == TrimEnd(TrimStart(s))

\* The prompts a user may type: empty, blank, padded with whitespace.
Prompts == { <<>>, <<Space>>, <<Space, "cat", Space>> }

\* --------------------------------------------------- geminiService.ts
\* `data:${mimeType};base64,${base64Data}`
DataURL(mimeType, base64Data) == <<"data:", mimeType, ";base64", ",">> \o base64Data

NoContentMessage == <<"API returned no content. The prompt might have been blocked.">>
FailedMessage == <<"Failed to synthesize image. Please check the console for more details.">>

\* images.map(image => ({inlineData: {mimeType, data}}))
ImagePartsOf(images) ==
  [i \in 1..Len(images) |->
     [inlineData |-> Some([mimeType |-> images[i].mimeType, data |-> images[i].data]),
      text |-> None]]

\* const textPart = {text: prompt}
TextPartOf(p) == [inlineData |-> None, text |-> Some(p)]

\* parts: [...imageParts, textPart]
RequestParts(p, images) == ImagePartsOf(images) \o <<TextPartOf(p)>>

EmptyResult == [imageUrl |-> None, text |-> None]

\* The body of the for loop over candidate.content.parts, keeping the first
\* value of each kind.
ParseStepFirstWins(result, part) ==
  IF part.inlineData # None /\ Truthy(part.inlineData[1].data)
  THEN IF result.imageUrl = None
       THEN [result EXCEPT !.imageUrl =
               Some(DataURL(part.inlineData[1].mimeType, part.inlineData[1].data))]
       ELSE result
  ELSE IF part.text # None /\ Truthy(part.text[1])
       THEN IF result.text = None THEN [result EXCEPT !.text = part.text] ELSE result
       ELSE result

\* The body of the for loop over candidate.content.parts.
ParseStep(result, part) ==
  IF part.inlineData # None /\ Truthy(part.inlineData[1].data)
  THEN [result EXCEPT !.imageUrl =
          Some(DataURL(part.inlineData[1].mimeType, part.inlineData[1].data))]
  ELSE IF part.text # None /\ Truthy(part.text[1])
       THEN [result EXCEPT !.text = part.text]
       ELSE result

RECURSIVE ParseParts(_, _)
ParseParts(result, parts) ==
  IF parts = <<>> THEN result
  ELSE ParseParts(ParseStep(result, Head(parts)), Tail(parts))

Threw(message) == [threw |-> TRUE, message |-> message, value |-> EmptyResult]
Returned(value) == [threw |-> FALSE, message |-> <<>>, value |-> value]

\* The try block after the awaited generateContent: what it returns or throws.
\* A response is [threw, candidates]; a candidate is [hasContent, parts].
\* response.candidates undefined and [] take the same branch of line 57 and
\* are both the empty sequence here.
TryBody(response) ==
  IF response.threw THEN Threw(<<"remote error">>)
  ELSE IF response.candidates # <<>> /\ ~response.candidates[1].hasContent
       THEN Threw(<<"TypeError">>)
       ELSE LET result == IF response.candidates # <<>>
                          THEN ParseParts(EmptyResult, response.candidates[1].parts)
                          ELSE EmptyResult
            IN IF result.imageUrl = None /\ result.text = None
               THEN Threw(NoContentMessage)
               ELSE Returned(result)

\* How the promise of synthesizeImage settles on a response: the catch block
\* rethrows whatever the try block threw as one generic error.
Settle(response) ==
  LET r == TryBody(response) IN
  IF r.threw
  THEN [status |-> "rejected", message |-> FailedMessage, value |-> EmptyResult]
  ELSE [status |-> "fulfilled", message |-> <<>>, value |-> r.value]

\* ------------------------------------------------- the remote service
MimeTypes == {"image/png", "image/jpeg"}
Payloads == { <<"AAAA">>, <<"BBBB">> }

ResponseParts ==
  { [inlineData |-> Some([mimeType |-> "image/png", data |-> <<"IMG1">>]), text |-> None],
    [inlineData |-> Some([mimeType |-> "image/jpeg", data |-> <<"IMG2">>]), text |-> None],
    [inlineData |-> None, text |-> Some(<<"one">>)],
    [inlineData |-> None, text |-> Some(<<"two">>)],
    [inlineData |-> Some([mimeType |-> "image/png", data |-> <<"IMG3">>]),
     text |-> Some(<<"both">>)],
    [inlineData |-> Some([mimeType |-> "image/png", data |-> <<>>]), text |-> Some(<<>>)] }

SeqsUpTo(S, n) == UNION { [1..k -> S] : k \in 0..n }

ThrownResponse == [threw |-> TRUE, candidates |-> <<>>]
NoCandidates == [threw |-> FALSE, candidates |-> <<>>]
NoContentCandidate ==
  [threw |-> FALSE, candidates |-> <<[hasContent |-> FALSE, parts |-> <<>>]>>]
PartsResponse(parts) ==
  [threw |-> FALSE, candidates |-> <<[hasContent |-> TRUE, parts |-> parts]>>]

\* Everything generateContent may do: throw, or return a response.
Responses ==
  {ThrownResponse, NoCandidates, NoContentCandidate}
    \cup { PartsResponse(ps) : ps \in SeqsUpTo(ResponseParts, MaxParts) }

ImageOnlyPart ==
  [inlineData |-> Some([mimeType |-> "image/png", data |-> <<"IMG1">>]), text |-> None]
TextOnlyPart == [inlineData |-> None, text |-> Some(<<"one">>)]

\* The responses the component is run against: a throw, no candidate, a
\* candidate without content, no part, an image, a text, an image and a text.
UIResponses ==
  {ThrownResponse, NoCandidates, NoContentCandidate, PartsResponse(<<>>),
   PartsResponse(<<ImageOnlyPart>>), PartsResponse(<<TextOnlyPart>>),
   PartsResponse(<<ImageOnlyPart, TextOnlyPart>>)}

EncodedImages == [mimeType : MimeTypes, data : Payloads]

\* ------------------------------------------------------------ App.tsx
\* The files a user can pick.  bytes stands for the binary content.
UserFiles ==
  { [name |-> "a.png", type |-> "image/png", bytes |-> "bytes-a"],
    [name |-> "b.jpg", type |-> "image/jpeg", bytes |-> "bytes-b"] }

\* The base64 text the browser produces for a file's bytes.
Base64(bytes) == IF bytes = "bytes-a" THEN <<"AAAA">> ELSE <<"BBBB">>

\* FileReader.readAsDataURL: reader.result on load.
ReadAsDataURL(file) == <<"data:", file.type, ";base64", ",">> \o Base64(file.bytes)

RECURSIVE Split(_, _)
\* String.prototype.split on a one-token separator.
Split(s, sep) ==
  IF \E i \in 1..Len(s) : s[i] = sep
  THEN LET i == CHOOSE k \in 1..Len(s) : s[k] = sep /\ \A j \in 1..(k - 1) : s[j] # sep
       IN <<SubSeq(s, 1, i - 1)>> \o Split(SubSeq(s, i + 1, Len(s)), sep)
  ELSE <<s>>

\* fileToBase64, on a successful read: result.split(',')[1]
FileToBase64(file) == Split(ReadAsDataURL(file), ",")[2]

ValidationMessage == <<"validation: images and prompt are both required">>
ErrorPrefix == "error while generating the image: "
\* `...: ${err.message}` for a rejection of synthesizeImage.
SubmitErrorOf(message) == <<ErrorPrefix>> \o message
\* reader.onerror rejects with the ProgressEvent, which has no message.
ReadErrorMessage == <<"undefined">>

\* The submit button's disabled attribute, from the values of a render.
SubmitDisabledNoLoading(v) == Len(v.imageFiles) = 0 \/ ~Truthy(Trim(v.prompt))
SubmitDisabled(v) == v.isLoading \/ Len(v.imageFiles) = 0 \/ ~Truthy(Trim(v.prompt))

RemoveAt(s, i) == SubSeq(s, 1, i - 1) \o SubSeq(s, i + 1, Len(s))

\* imageFiles.map(imgFile => {mimeType: imgFile.file.type, data: base64Data})
\* resolved by Promise.all: the results are in the order of the input list.
EncodedReversed(files) ==
  [i \in 1..Len(files) |->
     [mimeType |-> files[Len(files) + 1 - i].file.type,
      data |-> FileToBase64(files[Len(files) + 1 - i].file)]]
Encoded(files) ==
  [i \in 1..Len(files) |->
     [mimeType |-> files[i].file.type, data |-> FileToBase64(files[i].file)]]

VARIABLES
  imageFiles,      \* useState: the intake list, a sequence of [file, preview]
  prompt,          \* useState
  generatedImage,  \* useState, nullable
  generatedText,   \* useState, nullable
  isLoading,       \* useState
  error,           \* useState, nullable
  view,            \* the values of the last committed render, which the
                   \* handlers' closures and the JSX attributes read
  minted,          \* number of object URLs URL.createObjectURL has minted
  revoked,         \* per object URL, the number of URL.revokeObjectURL calls
  inflight,        \* the handleSubmit invocations suspended at an await
  finished,        \* summary of the handleSubmit invocation that ended last
  direct           \* an invocation of synthesizeImage outside the component

vars == <<imageFiles, prompt, generatedImage, generatedText, isLoading, error,
          view, minted, revoked, inflight, finished, direct>>

uiVars == <<imageFiles, prompt, generatedImage, generatedText, isLoading, error,
            view, minted, revoked, inflight, finished>>

DirectIdle ==
  [pc |-> "start", prompt |-> <<>>, images |-> <<>>, calls |-> 0,
   request |-> <<>>, response |-> NoCandidates,
   outcome |-> [status |-> "pending", message |-> <<>>, value |-> EmptyResult]]

InitUI ==
  /\ imageFiles = <<>>
  /\ prompt = <<>>
  /\ generatedImage = None
  /\ generatedText = None
  /\ isLoading = FALSE
  /\ error = None
  /\ view = [imageFiles |-> <<>>, prompt |-> <<>>, isLoading |-> FALSE]
  /\ minted = 0
  /\ revoked = [u \in 1..MaxUrls |-> 0]
  /\ inflight = {}
  /\ finished = [phase |-> "none", calls |-> 0, enc |-> <<>>]


\* What React commits after a handler: with flush the component re-renders
\* before the next event, without it the closures of the last render stay.
Commit(flush) ==
  view' = IF flush
          THEN [imageFiles |-> imageFiles', prompt |-> prompt', isLoading |-> isLoading']
          ELSE view

Previews(list) == { list[i].preview : i \in 1..Len(list) }

\* handleFileChange: every selected file gets a freshly minted object URL and
\* the updater appends to the latest state.
HandleFileChange(files, flush) ==
  /\ minted + Len(files) <= MaxUrls
  /\ LET filePreviews ==
           [i \in 1..Len(files) |-> [file |-> files[i], preview |-> minted + i]]
     IN imageFiles' = imageFiles \o filePreviews
  /\ minted' = minted + Len(files)
  /\ UNCHANGED <<prompt, generatedImage, generatedText, isLoading, error, revoked,
                 inflight, finished, direct>>
  /\ Commit(flush)

\* removeImage(index), from the button rendered for entry index: it copies
\* the list of its render, revokes the preview there and sets the copy.
RemoveImage(index, flush) ==
  /\ index \in 1..Len(view.imageFiles)
  /\ LET newImageFiles == view.imageFiles
         u == newImageFiles[index].preview
     IN /\ revoked[u] < MaxRevokes
        /\ revoked' = [revoked EXCEPT ![u] = @ + 1]
        /\ imageFiles' = RemoveAt(newImageFiles, index)
  /\ UNCHANGED <<prompt, generatedImage, generatedText, isLoading, error, minted,
                 inflight, finished, direct>>
  /\ Commit(flush)

\* clearAllImages, from the button rendered while the list is not empty.
ClearAllImages(flush) ==
  /\ Len(view.imageFiles) > 0
  /\ \A u \in Previews(view.imageFiles) : revoked[u] < MaxRevokes
  /\ revoked' = [u \in 1..MaxUrls |->
                   IF u \in Previews(view.imageFiles) THEN revoked[u] + 1 ELSE revoked[u]]
  /\ imageFiles' = <<>>
  /\ UNCHANGED <<prompt, generatedImage, generatedText, isLoading, error, minted,
                 inflight, finished, direct>>
  /\ Commit(flush)

\* The textarea's onChange: setPrompt(e.target.value).
SetPrompt(p, flush) ==
  /\ p # prompt
  /\ prompt' = p
  /\ UNCHANGED <<imageFiles, generatedImage, generatedText, isLoading, error, minted,
                 revoked, inflight, finished, direct>>
  /\ Commit(flush)

\* Lines 62-65, keeping the results of the submission before.
ResetOnSubmitKeepResult ==
  [isLoading |-> TRUE, error |-> None,
   generatedImage |-> generatedImage, generatedText |-> generatedText]

\* Lines 62-65: what handleSubmit sets before its first await.
ResetOnSubmit ==
  [isLoading |-> TRUE, error |-> None, generatedImage |-> None, generatedText |-> None]

\* Line 84, never lowering the flag.
LoadingAfterSubmitStuck == isLoading

\* Line 84: the finally block's setIsLoading argument.
LoadingAfterSubmit == FALSE

\* Promise.race in place of Promise.all: the first read to load continues.
AnyLoaded(enc) == \E i \in 1..Len(enc) : enc[i] = "ok"

\* Promise.all fulfils when every fileToBase64 promise has.
AllLoaded(enc) == \A i \in 1..Len(enc) : enc[i] = "ok"

FreeId == CHOOSE k \in 1..(Cardinality(inflight) + 1) : \A s \in inflight : s.id # k

\* handleSubmit up to its first await, from a click on the enabled button.
\* Its imageFiles and prompt are those of the render (useCallback deps).
HandleSubmit(flush) ==
  /\ ~SubmitDisabled(view)
  /\ Cardinality(inflight) < MaxInFlight
  /\ IF Len(view.imageFiles) = 0 \/ ~Truthy(Trim(view.prompt))
     THEN /\ error' = Some(ValidationMessage)
          /\ UNCHANGED <<generatedImage, generatedText, isLoading, inflight>>
     ELSE /\ isLoading' = ResetOnSubmit.isLoading
          /\ error' = ResetOnSubmit.error
          /\ generatedImage' = ResetOnSubmit.generatedImage
          /\ generatedText' = ResetOnSubmit.generatedText
          /\ inflight' = inflight \cup
               {[id |-> FreeId, files |-> view.imageFiles, prompt |-> view.prompt,
                 enc |-> [i \in 1..Len(view.imageFiles) |-> "pending"],
                 phase |-> "encoding", calls |-> 0, request |-> <<>>,
                 listAtStart |-> imageFiles, promptAtStart |-> prompt]}
  /\ UNCHANGED <<imageFiles, prompt, minted, revoked, finished, direct>>
  /\ Commit(flush)

\* The FileReader of file i of submission s fires onload (ok) or onerror, and
\* handleSubmit runs on as far as it can: to the remote call once Promise.all
\* fulfils, through catch and finally on the first rejection.  Reads still
\* pending when the submission ends settle promises nobody awaits.
ReadDone(s, i, ok, flush) ==
  /\ s \in inflight
  /\ s.phase = "encoding"
  /\ i \in 1..Len(s.enc)
  /\ s.enc[i] = "pending"
  /\ IF ok
     THEN LET enc == [s.enc EXCEPT ![i] = "ok"] IN
          /\ inflight' = (inflight \ {s}) \cup
               { IF AllLoaded(enc)
                 THEN [s EXCEPT !.enc = enc, !.phase = "requesting", !.calls = @ + 1,
                                !.request = RequestParts(s.prompt, Encoded(s.files))]
                 ELSE [s EXCEPT !.enc = enc] }
          /\ UNCHANGED <<error, isLoading, finished>>
     ELSE /\ inflight' = inflight \ {s}
          /\ error' = Some(SubmitErrorOf(ReadErrorMessage))
          /\ isLoading' = LoadingAfterSubmit
          /\ finished' = [phase |-> "failed", calls |-> s.calls,
                          enc |-> [s.enc EXCEPT ![i] = "fail"]]
  /\ UNCHANGED <<imageFiles, prompt, generatedImage, generatedText, minted, revoked,
                 direct>>
  /\ Commit(flush)

\* generateContent of submission s returns or throws: synthesizeImage settles
\* and handleSubmit runs from line 76 to its end.
RemoteDone(s, response, flush) ==
  /\ s \in inflight
  /\ s.phase = "requesting"
  /\ LET outcome == Settle(response) IN
     /\ IF outcome.status = "fulfilled"
        THEN /\ generatedImage' = outcome.value.imageUrl
             /\ generatedText' = outcome.value.text
             /\ UNCHANGED error
        ELSE /\ error' = Some(SubmitErrorOf(outcome.message))
             /\ UNCHANGED <<generatedImage, generatedText>>
     /\ finished' = [phase |-> IF outcome.status = "fulfilled" THEN "success" ELSE "failed",
                     calls |-> s.calls, enc |-> s.enc]
  /\ isLoading' = LoadingAfterSubmit
  /\ inflight' = inflight \ {s}
  /\ UNCHANGED <<imageFiles, prompt, minted, revoked, direct>>
  /\ Commit(flush)

\* React renders the pending state.
Render ==
  /\ view # [imageFiles |-> imageFiles, prompt |-> prompt, isLoading |-> isLoading]
  /\ view' = [imageFiles |-> imageFiles, prompt |-> prompt, isLoading |-> isLoading]
  /\ UNCHANGED <<imageFiles, prompt, generatedImage, generatedText, isLoading, error,
                 minted, revoked, inflight, finished, direct>>

\* What one use of the file picker may select.
Selections == SeqsUpTo(UserFiles, MaxUrls) \ {<<>>}

Init == InitUI /\ direct = DirectIdle

\* Every event is handled against a fresh render: React commits the state a
\* handler set before it dispatches the next event.
Next ==
  \/ \E files \in Selections : HandleFileChange(files, TRUE)
  \/ \E index \in 1..MaxUrls : RemoveImage(index, TRUE)
  \/ ClearAllImages(TRUE)
  \/ \E p \in Prompts : SetPrompt(p, TRUE)
  \/ HandleSubmit(TRUE)
  \/ \E s \in inflight, i \in 1..MaxUrls, ok \in BOOLEAN : ReadDone(s, i, ok, TRUE)
  \/ \E s \in inflight, response \in UIResponses : RemoteDone(s, response, TRUE)

Spec == Init /\ [][Next]_vars

\* The intake list with events dispatched in one batch (one task): their
\* handlers run against the render they were created in, and React renders
\* the state they set after the batch.
NextBatch ==
  \/ \E files \in Selections : HandleFileChange(files, FALSE)
  \/ \E index \in 1..MaxUrls : RemoveImage(index, FALSE)
  \/ ClearAllImages(FALSE)
  \/ Render

SpecBatch == Init /\ [][NextBatch]_vars

\* The reads and the remote call each complete or fail in the end.
Fairness ==
  /\ WF_vars(\E s \in inflight, i \in 1..MaxUrls, ok \in BOOLEAN : ReadDone(s, i, ok, TRUE))
  /\ WF_vars(\E s \in inflight, response \in UIResponses : RemoteDone(s, response, TRUE))

LiveSpec == Init /\ [][Next]_vars /\ Fairness

\* ------------------------------------- synthesizeImage called directly
InitSynth ==
  /\ InitUI
  /\ \E p \in Prompts, images \in SeqsUpTo(EncodedImages, MaxImages) :
       direct = [DirectIdle EXCEPT !.prompt = p, !.images = images]

\* Lines 30-50: build the parts and issue generateContent.
SynthCall ==
  /\ direct.pc = "start"
  /\ direct' = [direct EXCEPT !.pc = "awaiting", !.calls = @ + 1,
                              !.request = RequestParts(direct.prompt, direct.images)]
  /\ UNCHANGED uiVars

\* Lines 52-79: the awaited call returns or throws, and the promise settles.
SynthSettle(response) ==
  /\ direct.pc = "awaiting"
  /\ direct' = [direct EXCEPT !.pc = "settled", !.response = response,
                              !.outcome = Settle(response)]
  /\ UNCHANGED uiVars

NextSynth == SynthCall \/ \E response \in Responses : SynthSettle(response)

SpecSynth == InitSynth /\ [][NextSynth]_vars

\* ------------------------------------------------------------- claims
\* The parts of a list that carry usable inline data, and those that carry
\* usable text (and, for the parser's else branch, no usable inline data).
ImageIdx(parts) ==
  { i \in 1..Len(parts) : parts[i].inlineData # None /\ parts[i].inlineData[1].data # <<>> }
TextIdx(parts) ==
  { i \in 1..Len(parts) : parts[i].text # None /\ parts[i].text[1] # <<>> }
TextOnlyIdx(parts) == TextIdx(parts) \ ImageIdx(parts)
MinOf(S) == CHOOSE x \in S : \A y \in S : x <= y
MaxOf(S) == CHOOSE x \in S : \A y \in S : x >= y
UrlOfPart(part) ==
  <<"data:", part.inlineData[1].mimeType, ";base64", ",">> \o part.inlineData[1].data

DirectParts == direct.response.candidates[1].parts
DirectParsed ==
  /\ direct.pc = "settled"
  /\ ~direct.response.threw
  /\ direct.response.candidates # <<>>
  /\ direct.response.candidates[1].hasContent

\* C1: when the remote call returns but yields no usable content (no
\* candidate, or a first candidate without usable inline data or text),
\* synthesizeImage rejects with a message different from the one it rejects
\* with when the remote call throws.
C1_EmptyResponseDistinct ==
  (/\ direct.pc = "settled"
   /\ ~direct.response.threw
   /\ \/ direct.response.candidates = <<>>
      \/ /\ direct.response.candidates[1].hasContent
         /\ ImageIdx(DirectParts) = {}
         /\ TextIdx(DirectParts) = {})
  => /\ direct.outcome.status = "rejected"
     /\ direct.outcome.message # Settle(ThrownResponse).message

\* C2 as stated: imageUrl is the data URL of the FIRST part with inline data
\* and text is the text of the FIRST part with text.
C2_FirstPartWins ==
  (DirectParsed /\ direct.outcome.status = "fulfilled")
  => /\ ImageIdx(DirectParts) # {}
        => direct.outcome.value.imageUrl =
             <<UrlOfPart(DirectParts[MinOf(ImageIdx(DirectParts))])>>
     /\ TextIdx(DirectParts) # {}
        => direct.outcome.value.text = DirectParts[MinOf(TextIdx(DirectParts))].text

\* C2 amended: synthesizeImage fulfils exactly when some part carries usable
\* inline data or text; imageUrl is data:<mimeType>;base64,<payload> of the
\* LAST part with non-empty inline data, and text is the text of the LAST
\* part with non-empty text and no non-empty inline data; null without one.
C2_LastPartWins ==
  DirectParsed
  => /\ direct.outcome.status = "fulfilled"
          <=> (ImageIdx(DirectParts) \cup TextOnlyIdx(DirectParts)) # {}
     /\ direct.outcome.status = "fulfilled"
        => /\ direct.outcome.value.imageUrl =
                IF ImageIdx(DirectParts) = {} THEN <<>>
                ELSE <<UrlOfPart(DirectParts[MaxOf(ImageIdx(DirectParts))])>>
           /\ direct.outcome.value.text =
                IF TextOnlyIdx(DirectParts) = {} THEN <<>>
                ELSE DirectParts[MaxOf(TextOnlyIdx(DirectParts))].text

\* A fulfilled call whose response had two parts with inline data of
\* different content, and a text part after a part carrying both.
C2_Witness ==
  /\ DirectParsed
  /\ direct.outcome.status = "fulfilled"
  /\ Cardinality(ImageIdx(DirectParts)) >= 2
  /\ TextOnlyIdx(DirectParts) # {}
  /\ UrlOfPart(DirectParts[MinOf(ImageIdx(DirectParts))])
       # UrlOfPart(DirectParts[MaxOf(ImageIdx(DirectParts))])

\* C3: synthesizeImage invoked with a blank prompt and no image never issues
\* the remote call.
C3_BlankCallIssuesNoRequest ==
  (Trim(direct.prompt) = <<>> /\ direct.images = <<>>) => direct.calls = 0

\* C4: after any sequence of add, remove and clear events, also ones handled
\* before the component re-renders, every minted preview whose entry is in
\* the list is unreleased, every other one has been released exactly once,
\* and the entries of the list have distinct previews.
C4_PreviewsOneToOne ==
  /\ Cardinality(Previews(imageFiles)) = Len(imageFiles)
  /\ \A u \in 1..minted :
       IF u \in Previews(imageFiles) THEN revoked[u] = 0 ELSE revoked[u] = 1

HasFail(enc) == \E i \in 1..Len(enc) : enc[i] = "fail"

\* C6: a submission's remote call is issued only once every file of it has
\* been encoded; a submission with a failed read issued no remote call and
\* ended failed, with an error message set.
C6_AllOrNothing ==
  /\ \A s \in inflight :
       /\ s.calls > 0 => \A i \in 1..Len(s.enc) : s.enc[i] = "ok"
       /\ ~HasFail(s.enc)
  /\ finished.calls > 0 => \A i \in 1..Len(finished.enc) : finished.enc[i] = "ok"
  /\ HasFail(finished.enc) => finished.calls = 0 /\ finished.phase = "failed"
  /\ (HasFail(finished.enc) /\ inflight = {}) => (error # None /\ ~isLoading)

\* A submission of two files ended on the failed read of its first file after
\* the second had loaded.
C6_Witness ==
  /\ Len(finished.enc) = 2
  /\ finished.enc[1] = "fail"
  /\ finished.enc[2] = "ok"
  /\ finished.calls = 0
  /\ error # None

C8_RemoveFrame ==
  [][\A i \in 1..MaxUrls :
       ((\E flush \in BOOLEAN : RemoveImage(i, flush)) /\ i <= Len(imageFiles))
       => /\ imageFiles' = RemoveAt(imageFiles, i)
          /\ revoked' = [revoked EXCEPT ![imageFiles[i].preview] = @ + 1]]_vars

\* C9: the request of a submission holds one image part per entry of the
\* list as it was when the submission started, in that order, each with the
\* file's type and its base64 payload, then one text part with the prompt as
\* it was typed.
C9_RequestOrder ==
  \A s \in inflight :
    s.phase = "requesting"
    => /\ Len(s.request) = Len(s.listAtStart) + 1
       /\ \A i \in 1..Len(s.listAtStart) :
            s.request[i] =
              [inlineData |-> <<[mimeType |-> s.listAtStart[i].file.type,
                                 data |-> Base64(s.listAtStart[i].file.bytes)]>>,
               text |-> <<>>]
       /\ s.request[Len(s.request)] = [inlineData |-> <<>>, text |-> <<s.promptAtStart>>]

\* A request of two different files and a padded prompt is outstanding after
\* the list and the prompt have changed.
C9_Witness ==
  \E s \in inflight :
    /\ s.phase = "requesting"
    /\ Len(s.listAtStart) = 2
    /\ s.listAtStart[1].file # s.listAtStart[2].file
    /\ s.promptAtStart # Trim(s.promptAtStart)
    /\ imageFiles # s.listAtStart
    /\ prompt # s.promptAtStart

C10_Safety ==
  /\ inflight # {} <=> isLoading
  /\ \A s \in inflight :
       /\ s.phase \in {"encoding", "requesting"}
       /\ s.phase = "encoding" => s.calls = 0
       /\ s.phase = "requesting" => s.calls = 1
  /\ finished.calls <= 1
  /\ finished.phase = "success" => finished.calls = 1
  /\ (inflight = {} /\ finished.phase # "none")
     => /\ finished.phase \in {"success", "failed"}
        /\ finished.phase = "success" <=> (generatedImage # None \/ generatedText # None)
        /\ finished.phase = "failed" <=> error # None

====
